---- MODULE Spec2Model ----
(***************************************************************************)
(* Room allocation service (app/services.py, app/storage.py, app/models.py) *)
(* as a state machine over the JSON store: the stored room list and class   *)
(* list, the request handlers as atomic actions (Spec), the same handlers   *)
(* split at the store's load and save calls and run by two request threads  *)
(* (SpecConc), and the schedule conflict predicate and the status deriver   *)
(* applied to enumerated inputs (SpecPure).                                 *)
(***************************************************************************)
EXTENDS Integers, Sequences, FiniteSets, TLC

VARIABLES
    rooms,      \* DataStore._data["rooms"]: the stored room list, in order
    classes,    \* DataStore._data["classes"]: the stored class list, in order
    idgen,      \* next fresh identifier of _generate_id, per kind
    last,       \* outcome of the last request handled (Spec)
    wk,         \* per request thread: position, request, local snapshot (SpecConc)
    pin,        \* enumerated input of the pure functions (SpecPure)
    pout        \* result of the pure function applied to pin (SpecPure)

vars == <<rooms, classes, idgen, last, wk, pin, pout>>

----------------------------------------------------------------------------
(* Bounds of the model *)

MaxDate == 2
MaxRooms == 2
MaxClasses == 2
MaxReleases == 1
MaxBooked == 3
MaxBookedRooms == 3
MaxConcOps == 3
MaxPureDate == 3
SeedCount == 1

----------------------------------------------------------------------------
(* Values of app/models.py *)

RoomStatus == {"available", "occupied", "reserved", "blocked"}

Period == {"morning", "afternoon"}

DayOfWeek == {"monday", "tuesday"}

NoId == 0

NoDate == 0

NoCount == 0

Dates == 1..MaxDate

\* ClassSchedule: validate_dates rejects end_date < start_date
ClassSchedule ==
    { s \in [start_date : Dates, end_date : Dates,
             days_of_week : SUBSET DayOfWeek \ {{}}, period : Period] :
        s.start_date <= s.end_date }

NoSchedule == [start_date |-> NoDate, end_date |-> NoDate, days_of_week |-> {}, period |-> "none"]

Room(id, capacity) ==
    [id |-> id, capacity |-> capacity, status |-> "available", blocked_dates |-> {}]

Classroom(id, schedule, student_count, room_id) ==
    [id |-> id, schedule |-> schedule, student_count |-> student_count,
     room_id |-> room_id, released_slots |-> <<>>]

----------------------------------------------------------------------------
(* Seed data *)

SeedCapacities == <<18, 20, 40, 45, 35, 28, 30, 30, 30, 32, 32, 32, 32, 35, 35, 32, 32, 32, 32, 32, 45>>

seed_rooms(first) ==
    [i \in 1..SeedCount |-> Room(first + i - 1, SeedCapacities[i])]

\* load_data: an empty room list is replaced by the seeded catalog and saved
load_data(rs, g) ==
    IF rs = <<>>
    THEN [rooms |-> seed_rooms(g.room), idgen |-> [g EXCEPT !.room = @ + SeedCount]]
    ELSE [rooms |-> rs, idgen |-> g]

----------------------------------------------------------------------------
(* Helper functions *)

Range(s) == { s[i] : i \in DOMAIN s }

Max(S) == CHOOSE x \in S : \A y \in S : y <= x

Min(S) == CHOOSE x \in S : \A y \in S : x <= y

\* least member of a set of positions, 0 when there is none
FirstIndex(S) == IF S = {} THEN 0 ELSE Min(S)

\* position of the first room of rs with identifier id, 0 when there is none
RoomIndex(rs, id) == FirstIndex({ i \in DOMAIN rs : rs[i].id = id })

\* position of the first class of cs with identifier id, 0 when there is none
ClassIndex(cs, id) == FirstIndex({ i \in DOMAIN cs : cs[i].id = id })

\* position of the first class of cs assigned to room_id, 0 when there is none
OccupantIndex(cs, room_id) == FirstIndex({ i \in DOMAIN cs : cs[i].room_id = room_id })

_class_conflicts_asym(candidate, target) ==
    LET sched_a == candidate.schedule
        sched_b == target.schedule
    IN  /\ sched_a.period = sched_b.period
        /\ (sched_a.days_of_week \cap sched_b.days_of_week) # {}
        /\ ~(sched_a.end_date < sched_b.start_date \/ sched_b.end_date <= sched_a.start_date)

_class_conflicts(candidate, target) ==
    LET sched_a == candidate.schedule
        sched_b == target.schedule
        same_period == sched_a.period = sched_b.period
        days_overlap == (sched_a.days_of_week \cap sched_b.days_of_week) # {}
        date_overlap == ~(sched_a.end_date < sched_b.start_date
                          \/ sched_b.end_date < sched_a.start_date)
    IN  same_period /\ days_overlap /\ date_overlap

_room_has_conflict_released(room_id, new_schedule, cs) ==
    \E i \in DOMAIN cs :
        /\ cs[i].room_id = room_id
        /\ cs[i].released_slots = <<>>
        /\ _class_conflicts(Classroom(NoId, new_schedule, NoCount, room_id), cs[i])

_room_has_conflict(room_id, new_schedule, cs) ==
    \E i \in DOMAIN cs :
        /\ cs[i].room_id = room_id
        /\ _class_conflicts(Classroom(NoId, new_schedule, NoCount, room_id), cs[i])

_room_blocked_open(room, schedule) ==
    \E block_date \in room.blocked_dates :
        schedule.start_date <= block_date /\ block_date < schedule.end_date

_room_blocked(room, schedule) ==
    \E block_date \in room.blocked_dates :
        schedule.start_date <= block_date /\ block_date <= schedule.end_date

\* a sequence back to front
Reversed(s) == [i \in DOMAIN s |-> s[Len(s) + 1 - i]]

_eligible_rooms_prepend(rs, schedule, students, cs) ==
    Reversed(SelectSeq(rs, LAMBDA room :
        /\ ~(room.capacity < students)
        /\ ~(room.status = "blocked")
        /\ ~_room_blocked(room, schedule)
        /\ ~_room_has_conflict(room.id, schedule, cs)))

_eligible_rooms(rs, schedule, students, cs) ==
    SelectSeq(rs, LAMBDA room :
        /\ ~(room.capacity < students)
        /\ ~(room.status = "blocked")
        /\ ~_room_blocked(room, schedule)
        /\ ~_room_has_conflict(room.id, schedule, cs))

_suggest_next_gap_earliest(rs, schedule, students, cs) ==
    LET conflicted(room) ==
            { i \in DOMAIN cs :
                /\ cs[i].room_id = room.id
                /\ _class_conflicts(cs[i], Classroom(NoId, schedule, NoCount, room.id)) }
        scanned ==
            { j \in DOMAIN rs :
                /\ ~(rs[j].capacity < students)
                /\ ~(rs[j].status = "blocked")
                /\ conflicted(rs[j]) # {} }
        suggestions ==
            { Min({ cs[i].schedule.end_date : i \in conflicted(rs[j]) }) + 1 : j \in scanned }
    IN  IF suggestions # {} THEN Min(suggestions) ELSE NoDate

_suggest_next_gap_strict(rs, schedule, students, cs) ==
    LET conflicted(room) ==
            { i \in DOMAIN cs :
                /\ cs[i].room_id = room.id
                /\ _class_conflicts(cs[i], Classroom(NoId, schedule, NoCount, room.id)) }
        scanned ==
            { j \in DOMAIN rs :
                /\ ~(rs[j].capacity <= students)
                /\ ~(rs[j].status = "blocked")
                /\ conflicted(rs[j]) # {} }
        suggestions ==
            { Max({ cs[i].schedule.end_date : i \in conflicted(rs[j]) }) + 1 : j \in scanned }
    IN  IF suggestions # {} THEN Min(suggestions) ELSE NoDate

_suggest_next_gap(rs, schedule, students, cs) ==
    LET conflicted(room) ==
            { i \in DOMAIN cs :
                /\ cs[i].room_id = room.id
                /\ _class_conflicts(cs[i], Classroom(NoId, schedule, NoCount, room.id)) }
        scanned ==
            { j \in DOMAIN rs :
                /\ ~(rs[j].capacity < students)
                /\ ~(rs[j].status = "blocked")
                /\ conflicted(rs[j]) # {} }
        suggestions ==
            { Max({ cs[i].schedule.end_date : i \in conflicted(rs[j]) }) + 1 : j \in scanned }
    IN  IF suggestions # {} THEN Min(suggestions) ELSE NoDate

_update_room_status_by_occupancy(room, cs) ==
    LET active_classes == { i \in DOMAIN cs : cs[i].room_id = room.id }
    IN  IF active_classes # {} THEN "occupied"
        ELSE IF room.status = "blocked" THEN "blocked"
        ELSE "available"

_update_room_status(room, cs) ==
    LET active_classes == { i \in DOMAIN cs : cs[i].room_id = room.id }
    IN  IF room.status = "blocked" THEN "blocked"
        ELSE IF active_classes # {} THEN "occupied"
        ELSE "available"

----------------------------------------------------------------------------
(* Request handlers as functions of the loaded snapshot (rs, cs).  A reply   *)
(* carries the HTTP outcome and the lists handed to save_data; a reply that  *)
(* raises carries the snapshot as loaded, since nothing more is saved.       *)

Reply(status, rs, cs) ==
    [status |-> status, rooms |-> rs, classes |-> cs, cls |-> NoId, room |-> NoId,
     displaced_class_id |-> NoId, new_room_for_displaced |-> NoId, suggestion |-> NoDate]

create_room_reply(rs, cs, payload, new_id) ==
    [Reply("ok", Append(rs, Room(new_id, payload.capacity)), cs) EXCEPT !.room = new_id]

update_room_reply_keep(rs, cs, room_id, payload) ==
    LET idx == RoomIndex(rs, room_id)
        room == rs[idx]
        copied == [id |-> room.id,
                   capacity |-> IF "capacity" \in payload.fields
                                THEN payload.capacity ELSE room.capacity,
                   status |-> IF "status" \in payload.fields
                              THEN payload.status ELSE room.status,
                   blocked_dates |-> IF "blocked_dates" \in payload.fields
                                     THEN payload.blocked_dates ELSE room.blocked_dates]
        updated == IF copied.status \notin {"blocked", "reserved"}
                   THEN [copied EXCEPT !.status = _update_room_status(copied, cs)]
                   ELSE copied
    IN  IF idx = 0 THEN Reply("not_found", rs, cs)
        ELSE [Reply("ok", [rs EXCEPT ![idx] = updated], cs) EXCEPT !.room = room_id]

update_room_reply(rs, cs, room_id, payload) ==
    LET idx == RoomIndex(rs, room_id)
        room == rs[idx]
        copied == [id |-> room.id,
                   capacity |-> IF "capacity" \in payload.fields
                                THEN payload.capacity ELSE room.capacity,
                   status |-> IF "status" \in payload.fields
                              THEN payload.status ELSE room.status,
                   blocked_dates |-> IF "blocked_dates" \in payload.fields
                                     THEN payload.blocked_dates ELSE room.blocked_dates]
        updated == IF copied.status # "blocked"
                   THEN [copied EXCEPT !.status = _update_room_status(copied, cs)]
                   ELSE copied
    IN  IF idx = 0 THEN Reply("not_found", rs, cs)
        ELSE [Reply("ok", [rs EXCEPT ![idx] = updated], cs) EXCEPT !.room = room_id]

create_class_reply_no_status(rs, cs, payload, new_id) ==
    LET ridx == RoomIndex(rs, payload.room_id)
        eligible_rooms ==
            IF payload.room_id # NoId
            THEN _eligible_rooms(<<rs[ridx]>>, payload.schedule, payload.student_count, cs)
            ELSE _eligible_rooms(rs, payload.schedule, payload.student_count, cs)
        assigned_room == eligible_rooms[1]
        classroom == Classroom(new_id, payload.schedule, payload.student_count, assigned_room.id)
    IN  IF payload.room_id # NoId /\ ridx = 0 THEN Reply("not_found", rs, cs)
        ELSE IF eligible_rooms = <<>>
        THEN [Reply("conflict", rs, cs) EXCEPT
                !.suggestion = _suggest_next_gap(rs, payload.schedule, payload.student_count, cs)]
        ELSE [Reply("ok", rs, Append(cs, classroom))
                EXCEPT !.cls = new_id, !.room = payload.room_id]

create_class_reply_fallback(rs, cs, payload, new_id) ==
    LET ridx == RoomIndex(rs, payload.room_id)
        named == IF payload.room_id # NoId
                 THEN _eligible_rooms(<<rs[ridx]>>, payload.schedule, payload.student_count, cs)
                 ELSE <<>>
        eligible_rooms ==
            IF named # <<>> THEN named
            ELSE _eligible_rooms(rs, payload.schedule, payload.student_count, cs)
        assigned_room == eligible_rooms[1]
        classroom == Classroom(new_id, payload.schedule, payload.student_count, assigned_room.id)
        aidx == RoomIndex(rs, assigned_room.id)
    IN  IF payload.room_id # NoId /\ ridx = 0 THEN Reply("not_found", rs, cs)
        ELSE IF eligible_rooms = <<>>
        THEN [Reply("conflict", rs, cs) EXCEPT
                !.suggestion = _suggest_next_gap(rs, payload.schedule, payload.student_count, cs)]
        ELSE [Reply("ok", [rs EXCEPT ![aidx].status = "occupied"], Append(cs, classroom))
                EXCEPT !.cls = new_id, !.room = payload.room_id]

create_class_reply(rs, cs, payload, new_id) ==
    LET ridx == RoomIndex(rs, payload.room_id)
        eligible_rooms ==
            IF payload.room_id # NoId
            THEN _eligible_rooms(<<rs[ridx]>>, payload.schedule, payload.student_count, cs)
            ELSE _eligible_rooms(rs, payload.schedule, payload.student_count, cs)
        assigned_room == eligible_rooms[1]
        classroom == Classroom(new_id, payload.schedule, payload.student_count, assigned_room.id)
        aidx == RoomIndex(rs, assigned_room.id)
    IN  IF payload.room_id # NoId /\ ridx = 0 THEN Reply("not_found", rs, cs)
        ELSE IF eligible_rooms = <<>>
        THEN [Reply("conflict", rs, cs) EXCEPT
                !.suggestion = _suggest_next_gap(rs, payload.schedule, payload.student_count, cs)]
        ELSE [Reply("ok", [rs EXCEPT ![aidx].status = "occupied"], Append(cs, classroom))
                EXCEPT !.cls = new_id, !.room = payload.room_id]

update_class_reply_stale_count(rs, cs, class_id, payload) ==
    LET idx == ClassIndex(cs, class_id)
        cls == cs[idx]
        new_schedule == IF payload.schedule # NoSchedule THEN payload.schedule ELSE cls.schedule
        new_room_id == IF payload.room_id # NoId THEN payload.room_id ELSE cls.room_id
        ridx == RoomIndex(rs, new_room_id)
        eligible == _eligible_rooms(<<rs[ridx]>>, new_schedule, cls.student_count,
                                    SelectSeq(cs, LAMBDA c : c.id # cls.id))
        updated == [cls EXCEPT !.student_count = IF payload.student_count # NoCount
                                                 THEN payload.student_count ELSE @,
                               !.room_id = new_room_id,
                               !.schedule = new_schedule]
        cs2 == [cs EXCEPT ![idx] = updated]
    IN  IF idx = 0 THEN Reply("not_found", rs, cs)
        ELSE IF ridx = 0 THEN Reply("not_found", rs, cs)
        ELSE IF eligible = <<>> THEN Reply("conflict", rs, cs)
        ELSE [Reply("ok",
                    [r \in DOMAIN rs |-> [rs[r] EXCEPT !.status = _update_room_status(rs[r], cs2)]],
                    cs2)
                EXCEPT !.cls = class_id, !.room = new_room_id]

update_class_reply(rs, cs, class_id, payload) ==
    LET idx == ClassIndex(cs, class_id)
        cls == cs[idx]
        new_schedule == IF payload.schedule # NoSchedule THEN payload.schedule ELSE cls.schedule
        new_room_id == IF payload.room_id # NoId THEN payload.room_id ELSE cls.room_id
        ridx == RoomIndex(rs, new_room_id)
        students == IF payload.student_count # NoCount
                    THEN payload.student_count ELSE cls.student_count
        eligible == _eligible_rooms(<<rs[ridx]>>, new_schedule, students,
                                    SelectSeq(cs, LAMBDA c : c.id # cls.id))
        updated == [cls EXCEPT !.student_count = IF payload.student_count # NoCount
                                                 THEN payload.student_count ELSE @,
                               !.room_id = new_room_id,
                               !.schedule = new_schedule]
        cs2 == [cs EXCEPT ![idx] = updated]
    IN  IF idx = 0 THEN Reply("not_found", rs, cs)
        ELSE IF ridx = 0 THEN Reply("not_found", rs, cs)
        ELSE IF eligible = <<>> THEN Reply("conflict", rs, cs)
        ELSE [Reply("ok",
                    [r \in DOMAIN rs |-> [rs[r] EXCEPT !.status = _update_room_status(rs[r], cs2)]],
                    cs2)
                EXCEPT !.cls = class_id, !.room = new_room_id]

release_class_day_reply(rs, cs, class_id, payload) ==
    LET idx == ClassIndex(cs, class_id)
    IN  IF idx = 0 THEN Reply("not_found", rs, cs)
        ELSE [Reply("ok", rs, [cs EXCEPT ![idx].released_slots = Append(@, payload)])
                EXCEPT !.cls = class_id]

\* reserve_room up to the relocation decision: the positions of the requesting
\* class, the desired room and the occupant found (0 when absent), and the
\* rooms eligible for the occupant
reserve_room_lookup(rs, cs, payload) ==
    LET qidx == ClassIndex(cs, payload.requesting_class_id)
        tidx == RoomIndex(rs, payload.desired_room_id)
        oidx == IF tidx = 0 THEN 0 ELSE OccupantIndex(cs, rs[tidx].id)
    IN  [qidx |-> qidx, tidx |-> tidx, oidx |-> oidx,
         alt_rooms |-> IF oidx = 0 THEN <<>>
                       ELSE _eligible_rooms(SelectSeq(rs, LAMBDA room : room.id # rs[tidx].id),
                                            cs[oidx].schedule, cs[oidx].student_count,
                                            SelectSeq(cs, LAMBDA c : c.id # cs[oidx].id))]

\* the class and room lists reserve_room saves
reserve_room_commit(rs, cs, payload) ==
    LET f == reserve_room_lookup(rs, cs, payload)
        target_room == rs[f.tidx]
        \* occupant and requesting are elements of the loaded list, changed in place;
        \* when they are the same object the second assignment wins
        cs1 == IF f.oidx # 0 THEN [cs EXCEPT ![f.oidx].room_id = f.alt_rooms[1].id] ELSE cs
        cs2 == [cs1 EXCEPT ![f.qidx].room_id = target_room.id]
        rs2 == [r \in DOMAIN rs |->
                  [rs[r] EXCEPT !.status = IF rs[r].id = target_room.id THEN "reserved"
                                           ELSE _update_room_status(rs[r], cs2)]]
    IN  [Reply("ok", rs2, cs2) EXCEPT
            !.cls = payload.requesting_class_id,
            !.room = target_room.id,
            !.displaced_class_id = IF f.oidx # 0 THEN cs[f.oidx].id ELSE NoId,
            !.new_room_for_displaced = IF f.oidx # 0 THEN f.alt_rooms[1].id ELSE NoId]

reserve_room_reply_early(rs, cs, payload) ==
    LET f == reserve_room_lookup(rs, cs, payload)
    IN  IF f.qidx = 0 THEN Reply("not_found", rs, cs)
        ELSE IF f.tidx = 0 THEN Reply("not_found", rs, cs)
        ELSE IF f.oidx # 0 /\ f.alt_rooms = <<>>
        THEN Reply("conflict", rs, [cs EXCEPT ![f.qidx].room_id = rs[f.tidx].id])
        ELSE reserve_room_commit(rs, cs, payload)

reserve_room_reply_unchecked(rs, cs, payload) ==
    LET f == reserve_room_lookup(rs, cs, payload)
    IN  IF f.qidx = 0 THEN Reply("not_found", rs, cs)
        ELSE IF f.tidx = 0
        THEN [Reply("ok", rs, [cs EXCEPT ![f.qidx].room_id = payload.desired_room_id])
                EXCEPT !.cls = payload.requesting_class_id, !.room = payload.desired_room_id]
        ELSE IF f.oidx # 0 /\ f.alt_rooms = <<>> THEN Reply("conflict", rs, cs)
        ELSE reserve_room_commit(rs, cs, payload)

reserve_room_reply(rs, cs, payload) ==
    LET f == reserve_room_lookup(rs, cs, payload)
    IN  IF f.qidx = 0 THEN Reply("not_found", rs, cs)
        ELSE IF f.tidx = 0 THEN Reply("not_found", rs, cs)
        ELSE IF f.oidx # 0 /\ f.alt_rooms = <<>> THEN Reply("conflict", rs, cs)
        ELSE reserve_room_commit(rs, cs, payload)

----------------------------------------------------------------------------
(* Request inputs *)

StudentCounts == {18, 20}

RoomCaps == {20}

BlockedDateSets == {{}, {MaxDate}}

\* the schedules requests carry: one weekday set and one period, every date range
ScheduleInputs ==
    { s \in ClassSchedule : s.days_of_week = {"monday"} /\ s.period = "morning" }

RoomCreate == [capacity : RoomCaps]

\* RoomUpdate: every field optional; fields holds the names that are set
RoomUpdate ==
    { u \in [fields : SUBSET {"status", "blocked_dates"}, capacity : {NoCount},
             status : RoomStatus, blocked_dates : BlockedDateSets] :
        /\ ("status" \notin u.fields => u.status = "available")
        /\ ("blocked_dates" \notin u.fields => u.blocked_dates = {}) }

ReleaseRequest == [date : {MaxDate}, period : {"morning"}]

RoomIds(rs) == { rs[i].id : i \in DOMAIN rs }

ClassIds(cs) == { cs[i].id : i \in DOMAIN cs }

\* identifiers a client can send: those of stored objects and one no object has
RoomIdInputs == RoomIds(rooms) \cup {load_data(rooms, idgen).idgen.room}

ClassIdInputs == ClassIds(classes) \cup {idgen.class}

ClassCreate ==
    [schedule : ScheduleInputs, student_count : StudentCounts, room_id : RoomIdInputs \cup {NoId}]

\* ClassUpdate: every field optional
ClassUpdate ==
    [schedule : ScheduleInputs \cup {NoSchedule}, student_count : StudentCounts \cup {NoCount},
     room_id : RoomIdInputs \cup {NoId}]

\* the updates the request threads send: at most one field set
ClassUpdateInputs ==
    { u \in ClassUpdate :
        \/ u.student_count = NoCount /\ u.room_id = NoId
        \/ u.schedule = NoSchedule /\ u.room_id = NoId
        \/ u.schedule = NoSchedule /\ u.student_count = NoCount }

ReservationRequest == [requesting_class_id : ClassIdInputs, desired_room_id : RoomIdInputs]

----------------------------------------------------------------------------
(* Spec: one request at a time, each handler from load_data to save_data *)

Outcome(op, r) ==
    [op |-> op, status |-> r.status, cls |-> r.cls, room |-> r.room,
     displaced_class_id |-> r.displaced_class_id,
     new_room_for_displaced |-> r.new_room_for_displaced]

NoOutcome == Outcome("none", Reply("none", <<>>, <<>>))

Workers == {1, 2}

Idle == [pc |-> "idle", rooms |-> <<>>, classes |-> <<>>, n |-> 0, created |-> {}, released |-> {}]

NoInput == [kind |-> "none"]

Init ==
    /\ rooms = <<>>
    /\ classes = <<>>
    /\ idgen = [room |-> 1, class |-> 1]
    /\ last = NoOutcome
    /\ wk = [p \in Workers |-> Idle]
    /\ pin = NoInput
    /\ pout = NoInput

\* the store after a handler replied r to the snapshot loaded as ld; last keeps
\* the reply of the latest request that was saved
Handled(op, ld, r, g) ==
    /\ rooms' = r.rooms
    /\ classes' = r.classes
    /\ idgen' = IF r.status = "ok" THEN g ELSE ld.idgen
    /\ last' = IF r.status = "ok" THEN Outcome(op, r) ELSE last
    /\ UNCHANGED <<wk, pin, pout>>

create_room_within(limit) ==
    \E payload \in RoomCreate :
        LET ld == load_data(rooms, idgen)
            r == create_room_reply(ld.rooms, classes, payload, ld.idgen.room)
        IN  /\ Len(ld.rooms) < limit
            /\ Handled("create_room", ld, r, [ld.idgen EXCEPT !.room = @ + 1])

create_room == create_room_within(MaxRooms)

update_room ==
    \E room_id \in RoomIdInputs, payload \in RoomUpdate :
        LET ld == load_data(rooms, idgen)
            r == update_room_reply(ld.rooms, classes, room_id, payload)
        IN  Handled("update_room", ld, r, ld.idgen)

create_class_within(limit) ==
    \E payload \in ClassCreate :
        LET ld == load_data(rooms, idgen)
            r == create_class_reply(ld.rooms, classes, payload, ld.idgen.class)
        IN  /\ Len(classes) < limit
            /\ Handled("create_class", ld, r, [ld.idgen EXCEPT !.class = @ + 1])

create_class == create_class_within(MaxClasses)

update_class ==
    \E class_id \in ClassIdInputs, payload \in ClassUpdateInputs :
        LET ld == load_data(rooms, idgen)
            r == update_class_reply(ld.rooms, classes, class_id, payload)
        IN  Handled("update_class", ld, r, ld.idgen)

release_class_day ==
    \E class_id \in ClassIdInputs, payload \in ReleaseRequest :
        LET ld == load_data(rooms, idgen)
            r == release_class_day_reply(ld.rooms, classes, class_id, payload)
        IN  /\ \A i \in DOMAIN classes :
                  classes[i].id = class_id => Len(classes[i].released_slots) < MaxReleases
            /\ Handled("release_class_day", ld, r, ld.idgen)

reserve_room ==
    \E payload \in ReservationRequest :
        LET ld == load_data(rooms, idgen)
            r == reserve_room_reply(ld.rooms, classes, payload)
        IN  Handled("reserve_room", ld, r, ld.idgen)

Next ==
    \/ create_room
    \/ update_room
    \/ create_class
    \/ update_class
    \/ release_class_day
    \/ reserve_room

Spec == Init /\ [][Next]_vars

----------------------------------------------------------------------------
(* SpecBooking: the handlers that assign rooms to classes, with room for a   *)
(* third class                                                               *)

add_room == create_room_within(MaxBookedRooms)

book_class == create_class_within(MaxBooked)

NextBooking ==
    \/ add_room
    \/ book_class
    \/ update_class
    \/ reserve_room

SpecBooking == Init /\ [][NextBooking]_vars

----------------------------------------------------------------------------
(* SpecConc: two request threads.  DataStore.load and DataStore.save each    *)
(* hold the store's lock, a handler holds nothing in between: a thread reads *)
(* a snapshot, computes its reply on it and saves the lists of the reply.    *)

\* DataStore.load, the first half of load_data
load(p) ==
    /\ wk[p].pc = "idle"
    /\ wk[1].n + wk[2].n < MaxConcOps
    /\ LET ld == load_data(rooms, idgen)
       IN  /\ wk' = [wk EXCEPT ![p].pc = IF rooms = <<>> THEN "seeded" ELSE "loaded",
                               ![p].rooms = ld.rooms,
                               ![p].classes = classes]
           /\ idgen' = ld.idgen
    /\ UNCHANGED <<rooms, classes, last, pin, pout>>

\* load_data on an empty room list: store.save(rooms, classes) of the seeded catalog
seed_save(p) ==
    /\ wk[p].pc = "seeded"
    /\ rooms' = wk[p].rooms
    /\ classes' = wk[p].classes
    /\ wk' = [wk EXCEPT ![p].pc = "loaded"]
    /\ UNCHANGED <<idgen, last, pin, pout>>

\* the rest of a handler: the reply r computed on the snapshot, then save_data
Finished(p, op, r, g) ==
    /\ wk[p].pc = "loaded"
    /\ rooms' = IF r.status = "ok" THEN r.rooms ELSE rooms
    /\ classes' = IF r.status = "ok" THEN r.classes ELSE classes
    /\ idgen' = IF r.status = "ok" THEN g ELSE idgen
    /\ wk' = [wk EXCEPT ![p] =
                [Idle EXCEPT !.n = wk[p].n + 1,
                             !.created = wk[p].created
                                 \cup IF op = "create_class" /\ r.status = "ok" THEN {r.cls} ELSE {},
                             !.released = wk[p].released
                                 \cup IF op = "release_class_day" /\ r.status = "ok" THEN {r.cls} ELSE {}]]
    /\ UNCHANGED <<last, pin, pout>>

conc_create_room(p) ==
    \E payload \in RoomCreate :
        /\ Len(wk[p].rooms) < MaxRooms
        /\ Finished(p, "create_room",
                    create_room_reply(wk[p].rooms, wk[p].classes, payload, idgen.room),
                    [idgen EXCEPT !.room = @ + 1])

conc_create_class(p) ==
    \E payload \in ClassCreate :
        /\ Len(wk[p].classes) < MaxClasses
        /\ Finished(p, "create_class",
                    create_class_reply(wk[p].rooms, wk[p].classes, payload, idgen.class),
                    [idgen EXCEPT !.class = @ + 1])

conc_update_class(p) ==
    \E class_id \in ClassIdInputs, payload \in ClassUpdateInputs :
        Finished(p, "update_class",
                 update_class_reply(wk[p].rooms, wk[p].classes, class_id, payload), idgen)

conc_reserve_room(p) ==
    \E payload \in ReservationRequest :
        Finished(p, "reserve_room",
                 reserve_room_reply(wk[p].rooms, wk[p].classes, payload), idgen)

conc_update_room(p) ==
    \E room_id \in RoomIdInputs, payload \in RoomUpdate :
        Finished(p, "update_room",
                 update_room_reply(wk[p].rooms, wk[p].classes, room_id, payload), idgen)

conc_release_class_day(p) ==
    \E class_id \in ClassIdInputs, payload \in ReleaseRequest :
        /\ \A i \in DOMAIN wk[p].classes :
              wk[p].classes[i].id = class_id
                  => Len(wk[p].classes[i].released_slots) < MaxReleases
        /\ Finished(p, "release_class_day",
                    release_class_day_reply(wk[p].rooms, wk[p].classes, class_id, payload),
                    idgen)

NextConc ==
    \E p \in Workers :
        \/ load(p)
        \/ seed_save(p)
        \/ conc_create_room(p)
        \/ conc_create_class(p)
        \/ conc_update_class(p)
        \/ conc_reserve_room(p)
        \/ conc_update_room(p)
        \/ conc_release_class_day(p)

SpecConc == Init /\ [][NextConc]_vars

----------------------------------------------------------------------------
(* SpecPure: _class_conflicts on enumerated schedule pairs and               *)
(* _update_room_status on enumerated rooms and class lists                   *)

PureSchedule ==
    { s \in [start_date : 1..MaxPureDate, end_date : 1..MaxPureDate,
             days_of_week : SUBSET DayOfWeek, period : Period] :
        s.start_date <= s.end_date }

PureRoom == { [Room(1, 18) EXCEPT !.status = st] : st \in RoomStatus }

PureClassLists ==
    LET cls(i, room_id) == Classroom(i, CHOOSE s \in ScheduleInputs : TRUE, 18, room_id)
    IN  {<<>>}
        \cup { <<cls(1, a)>> : a \in {1, 2} }
        \cup { <<cls(1, a), cls(2, b)>> : a \in {1, 2}, b \in {1, 2} }

PureInput ==
    [kind : {"schedules"}, a : PureSchedule, b : PureSchedule]
    \cup [kind : {"room"}, room : PureRoom, classes : PureClassLists]

InitPure ==
    /\ rooms = <<>>
    /\ classes = <<>>
    /\ idgen = [room |-> 1, class |-> 1]
    /\ last = NoOutcome
    /\ wk = [p \in Workers |-> Idle]
    /\ pin \in PureInput
    /\ pout = NoInput

apply_class_conflicts ==
    /\ pin.kind = "schedules"
    /\ pout = NoInput
    /\ pout' = [kind |-> "conflicts",
                ab |-> _class_conflicts(Classroom(1, pin.a, 18, 1), Classroom(2, pin.b, 18, 1)),
                ba |-> _class_conflicts(Classroom(2, pin.b, 18, 1), Classroom(1, pin.a, 18, 1))]
    /\ UNCHANGED <<rooms, classes, idgen, last, wk, pin>>

\* the status derived, and derived again for the room copied with that status
apply_update_room_status ==
    /\ pin.kind = "room"
    /\ pout = NoInput
    /\ LET derived == _update_room_status(pin.room, pin.classes)
       IN  pout' = [kind |-> "status", derived |-> derived,
                    again |-> _update_room_status([pin.room EXCEPT !.status = derived],
                                                  pin.classes)]
    /\ UNCHANGED <<rooms, classes, idgen, last, wk, pin>>

NextPure ==
    \/ apply_class_conflicts
    \/ apply_update_room_status

SpecPure == InitPure /\ [][NextPure]_vars

----------------------------------------------------------------------------
(* Properties *)

\* the room with identifier id in the room list rs
RoomOf(rs, id) == rs[RoomIndex(rs, id)]

\* the class with identifier id in the class list cs
ClassOf(cs, id) == cs[ClassIndex(cs, id)]

\* same period, intersecting weekday sets, overlapping closed date ranges
Overlapping(s, t) ==
    /\ s.period = t.period
    /\ s.days_of_week \cap t.days_of_week # {}
    /\ \E d \in 1..MaxPureDate :
          /\ s.start_date <= d /\ d <= s.end_date
          /\ t.start_date <= d /\ d <= t.end_date

\* C1: in every reachable state no two distinct classes assigned to the same
\* room have conflicting schedules (same period, intersecting weekday sets,
\* overlapping date ranges), the class reserve_room places in the desired room
\* and the occupant it relocates included.
C1_NoDoubleBooking ==
    \A i, j \in DOMAIN classes :
        (i # j /\ classes[i].room_id = classes[j].room_id)
            => ~Overlapping(classes[i].schedule, classes[j].schedule)

\* a room can host (schedule, students) beside the classes cs: capacity, status,
\* blocked dates and the schedules of the classes assigned to it
CanHost(room, schedule, students, cs) ==
    /\ room.capacity >= students
    /\ room.status # "blocked"
    /\ \A d \in room.blocked_dates : d < schedule.start_date \/ d > schedule.end_date
    /\ \A i \in DOMAIN cs : cs[i].room_id = room.id => ~Overlapping(cs[i].schedule, schedule)

\* the class found in the desired room has nowhere else to go
NoHome(rs, cs, room_id) ==
    /\ \E i \in DOMAIN cs : cs[i].room_id = room_id
    /\ LET occupant == cs[OccupantIndex(cs, room_id)]
       IN  \A j \in DOMAIN rs :
              rs[j].id # room_id
                  => ~CanHost(rs[j], occupant.schedule, occupant.student_count,
                              SelectSeq(cs, LAMBDA c : c.id # occupant.id))

\* C2: when reserve_room finds an occupant in the desired room and no other
\* room is eligible for it, the call fails with a conflict error and saves
\* nothing: the stored rooms and classes are what they were before the call.
C2_ReserveConflictChangesNothing ==
    \A payload \in ReservationRequest :
        LET ld == load_data(rooms, idgen)
            r == reserve_room_reply(ld.rooms, classes, payload)
        IN  ( /\ payload.requesting_class_id \in ClassIds(classes)
              /\ payload.desired_room_id \in RoomIds(rooms)
              /\ NoHome(rooms, classes, payload.desired_room_id) )
                => r.status = "conflict" /\ r.rooms = rooms /\ r.classes = classes

\* a reservation that must fail for want of a home for the occupant, asked by
\* another class than the occupant, in a store that has a second room
C2_Witness ==
    \E payload \in ReservationRequest :
        /\ payload.requesting_class_id \in ClassIds(classes)
        /\ payload.desired_room_id \in RoomIds(rooms)
        /\ NoHome(rooms, classes, payload.desired_room_id)
        /\ ClassOf(classes, payload.requesting_class_id).room_id # payload.desired_room_id
        /\ Len(rooms) > 1
        /\ reserve_room_reply(rooms, classes, payload).status = "conflict"

\* C3: after a successful reserve_room with desired room Y the requesting
\* class is stored in Y and Y is stored reserved; a displaced class that is
\* reported is stored in the reported room X, X differs from Y and X is stored
\* occupied.
C3_ReservePostcondition ==
    last.op = "reserve_room" =>
        /\ ClassOf(classes, last.cls).room_id = last.room
        /\ RoomOf(rooms, last.room).status = "reserved"
        /\ last.displaced_class_id # NoId =>
              /\ ClassOf(classes, last.displaced_class_id).room_id = last.new_room_for_displaced
              /\ last.new_room_for_displaced # last.room
              /\ RoomOf(rooms, last.new_room_for_displaced).status = "occupied"

\* C4: no step newly assigns a class (a created class, or a class whose room
\* changes) to a room that at that moment is blocked or has a blocked date
\* inside the class schedule's range.
C4_NoAssignmentToBlockedRoom ==
    [][\A i \in DOMAIN classes' :
          (i \notin DOMAIN classes \/ classes'[i].room_id # classes[i].room_id)
              => LET room == RoomOf(load_data(rooms, idgen).rooms, classes'[i].room_id)
                 IN  /\ room.status # "blocked"
                     /\ \A d \in room.blocked_dates :
                           d < classes'[i].schedule.start_date
                               \/ d > classes'[i].schedule.end_date]_vars

\* C5: with two request threads interleaving at the store's load and save
\* calls, every request that returned success keeps its effect in the store
\* (a created class is stored, a released class has its release record) and no
\* room is double-booked.
C5_NoLostUpdate ==
    /\ \A p \in Workers :
          /\ \A id \in wk[p].created : id \in ClassIds(classes)
          /\ \A id \in wk[p].released :
                id \in ClassIds(classes) /\ ClassOf(classes, id).released_slots # <<>>
    /\ C1_NoDoubleBooking

\* C6: a room is in the result of _eligible_rooms exactly when its capacity
\* is at least the student count, its status is not blocked, none of its
\* blocked dates lies in [start, end] of the schedule and no class assigned to
\* it has a conflicting schedule.
C6_EligibleIffCanHost ==
    \A schedule \in ClassSchedule, students \in StudentCounts :
        LET eligible == _eligible_rooms(rooms, schedule, students, classes)
        IN  \A j \in DOMAIN rooms :
               (rooms[j] \in Range(eligible)) <=> CanHost(rooms[j], schedule, students, classes)

\* of two rooms large enough and not blocked, while classes are stored, only one
\* is eligible and a room has a blocked date at the end of the schedule's range
C6_Witness ==
    \E schedule \in ClassSchedule, students \in StudentCounts :
        /\ Len(_eligible_rooms(rooms, schedule, students, classes)) = 1
        /\ Len(rooms) = 2
        /\ \A j \in DOMAIN rooms : rooms[j].capacity >= students /\ rooms[j].status # "blocked"
        /\ \E j \in DOMAIN rooms : schedule.end_date \in rooms[j].blocked_dates
        /\ classes # <<>>

\* room k is the first of the candidate rooms of rs (all but the one named
\* skip) that can host (schedule, students) beside the classes cs
FirstFit(rs, k, skip, schedule, students, cs) ==
    /\ k \in DOMAIN rs
    /\ rs[k].id # skip
    /\ CanHost(rs[k], schedule, students, cs)
    /\ \A j \in 1..(k - 1) : rs[j].id # skip => ~CanHost(rs[j], schedule, students, cs)

\* C7: room selection is first-fit by stored room order: _eligible_rooms keeps
\* the order of the room list; a successful create_class without a room stores
\* the new class in the first room of the list that is eligible; the room a
\* successful reserve_room selects for the occupant is the first room, the
\* desired one apart, that is eligible for it, and an occupant other than the
\* requesting class is stored there.
C7_FirstFit ==
    /\ \A schedule \in ClassSchedule, students \in StudentCounts :
          LET eligible == _eligible_rooms(rooms, schedule, students, classes)
          IN  \A a, b \in DOMAIN eligible :
                 a < b => RoomIndex(rooms, eligible[a].id) < RoomIndex(rooms, eligible[b].id)
    /\ \A payload \in ClassCreate :
          LET ld == load_data(rooms, idgen)
              r == create_class_reply(ld.rooms, classes, payload, ld.idgen.class)
          IN  (payload.room_id = NoId /\ r.status = "ok") =>
                  FirstFit(ld.rooms, RoomIndex(ld.rooms, ClassOf(r.classes, r.cls).room_id),
                           NoId, payload.schedule, payload.student_count, classes)
    /\ \A payload \in ReservationRequest :
          LET r == reserve_room_reply(load_data(rooms, idgen).rooms, classes, payload)
              occupant == ClassOf(classes, r.displaced_class_id)
          IN  (r.status = "ok" /\ r.displaced_class_id # NoId) =>
                  /\ FirstFit(rooms, RoomIndex(rooms, r.new_room_for_displaced),
                              payload.desired_room_id, occupant.schedule,
                              occupant.student_count,
                              SelectSeq(classes, LAMBDA c : c.id # occupant.id))
                  /\ r.displaced_class_id # r.cls =>
                        ClassOf(r.classes, r.displaced_class_id).room_id
                            = r.new_room_for_displaced

\* a reservation displaces the occupant, another class than the requesting
\* one, while two rooms beside the desired one are eligible for it, and a
\* class can be created while two rooms are eligible for it
C7_Witness ==
    /\ \E payload \in ReservationRequest :
          LET r == reserve_room_reply(rooms, classes, payload)
          IN  /\ r.status = "ok"
              /\ r.displaced_class_id # NoId
              /\ r.displaced_class_id # r.cls
              /\ Len(reserve_room_lookup(rooms, classes, payload).alt_rooms) = 2
    /\ \E payload \in ClassCreate :
          /\ payload.room_id = NoId
          /\ Len(_eligible_rooms(rooms, payload.schedule, payload.student_count, classes)) = 2

Conflicting(room, schedule) ==
    { i \in DOMAIN classes :
        classes[i].room_id = room.id /\ Overlapping(classes[i].schedule, schedule) }

C9_ConflictsSymmetric ==
    pout.kind = "conflicts" =>
        /\ pout.ab = pout.ba
        /\ ( /\ pin.a = pin.b
             /\ pin.a.days_of_week # {}
             /\ pin.a.end_date >= pin.a.start_date ) => pout.ab

\* two different schedules that touch in a single date conflict, both ways
C9_Witness ==
    /\ pout.kind = "conflicts"
    /\ pin.a.end_date = pin.b.start_date
    /\ pin.a.start_date < pin.b.start_date
    /\ pout.ab /\ pout.ba

\* C10: _update_room_status returns blocked for a blocked room whatever its
\* classes; otherwise occupied exactly when a class is assigned to the room and
\* available otherwise; never reserved; and the same status when derived again
\* for the room carrying the derived status.
C10_DerivedStatus ==
    pout.kind = "status" =>
        LET assigned == \E i \in DOMAIN pin.classes : pin.classes[i].room_id = pin.room.id
        IN  /\ pin.room.status = "blocked" => pout.derived = "blocked"
            /\ pin.room.status # "blocked" =>
                  pout.derived = IF assigned THEN "occupied" ELSE "available"
            /\ pout.derived # "reserved"
            /\ pout.again = pout.derived

\* a blocked room with a class assigned to it is derived blocked
C10_Witness ==
    /\ pout.kind = "status"
    /\ pin.room.status = "blocked"
    /\ \E i \in DOMAIN pin.classes : pin.classes[i].room_id = pin.room.id
    /\ pout.derived = "blocked"

\* C11: immediately after every successful create_class and every successful
\* update_class the stored status of every room, not only of the room that
\* received the class, is the status _update_room_status derives for it from
\* the stored classes; in particular no room is left reserved.
C11_FullRederivation ==
    last.op \in {"create_class", "update_class"} =>
        \A i \in DOMAIN rooms :
            /\ rooms[i].status = _update_room_status(rooms[i], classes)
            /\ rooms[i].status # "reserved"

\* C12 as claimed: a create_class or update_class call that fails (room or
\* class not found, no eligible room) adds no class and leaves the stored rooms
\* and classes exactly as they were before the call; a create_class that names
\* a room assigns the new class to that room or is rejected.
C12_FailureChangesNothing ==
    LET ld == load_data(rooms, idgen)
    IN  /\ \A payload \in ClassCreate :
              LET r == create_class_reply(ld.rooms, classes, payload, ld.idgen.class)
              IN  /\ r.status # "ok" => r.rooms = rooms /\ r.classes = classes
                  /\ (r.status = "ok" /\ payload.room_id # NoId) =>
                        ClassOf(r.classes, r.cls).room_id = payload.room_id
        /\ \A class_id \in ClassIdInputs, payload \in ClassUpdate :
              LET r == update_class_reply(ld.rooms, classes, class_id, payload)
              IN  r.status # "ok" => r.rooms = rooms /\ r.classes = classes

\* C12 as amended: a failed create_class or update_class adds no class, leaves
\* the stored classes as they were and the stored rooms as load_data returned
\* them: the stored room list, or the seeded catalog when that list was empty;
\* a create_class that names a room assigns the new class to that room or is
\* rejected.
C12_FailureKeepsLoadedSnapshot ==
    LET ld == load_data(rooms, idgen)
    IN  /\ ld.rooms = IF rooms = <<>> THEN seed_rooms(idgen.room) ELSE rooms
        /\ \A payload \in ClassCreate :
              LET r == create_class_reply(ld.rooms, classes, payload, ld.idgen.class)
              IN  /\ r.status # "ok" => r.rooms = ld.rooms /\ r.classes = classes
                  /\ (r.status = "ok" /\ payload.room_id # NoId) =>
                        /\ ClassOf(r.classes, r.cls).room_id = payload.room_id
                        /\ Len(r.classes) = Len(classes) + 1
        /\ \A class_id \in ClassIdInputs, payload \in ClassUpdate :
              LET r == update_class_reply(ld.rooms, classes, class_id, payload)
              IN  r.status # "ok" => r.rooms = ld.rooms /\ r.classes = classes

\* a create_class that names a room the candidate cannot have is rejected while
\* another room is eligible for it, and an update_class of a stored class is
\* rejected for want of an eligible room
C12_Witness ==
    /\ \E payload \in ClassCreate :
          /\ payload.room_id \in RoomIds(rooms)
          /\ create_class_reply(rooms, classes, payload, idgen.class).status = "conflict"
          /\ _eligible_rooms(rooms, payload.schedule, payload.student_count, classes) # <<>>
    /\ \E class_id \in ClassIds(classes), payload \in ClassUpdate :
          update_class_reply(rooms, classes, class_id, payload).status = "conflict"

\* the class the reply r created or updated is saved in a room whose capacity is
\* at least the student count saved on the class
FitsItsRoom(r) ==
    LET cls == ClassOf(r.classes, r.cls)
    IN  /\ cls.room_id \in RoomIds(r.rooms)
        /\ RoomOf(r.rooms, cls.room_id).capacity >= cls.student_count

\* C13: immediately after every successful create_class and every successful
\* update_class the capacity of the room assigned to the created or updated
\* class is at least the student count stored on that class, whichever fields
\* the update sets (student count, room, schedule, or several of them).
C13_CapacityCoversStudents ==
    LET ld == load_data(rooms, idgen)
    IN  /\ \A payload \in ClassCreate :
              LET r == create_class_reply(ld.rooms, classes, payload, ld.idgen.class)
              IN  r.status = "ok" => FitsItsRoom(r)
        /\ \A class_id \in ClassIdInputs, payload \in ClassUpdate :
              LET r == update_class_reply(ld.rooms, classes, class_id, payload)
              IN  r.status = "ok" => FitsItsRoom(r)
        /\ last.op \in {"create_class", "update_class"} =>
              LET cls == ClassOf(classes, last.cls)
              IN  RoomOf(rooms, cls.room_id).capacity >= cls.student_count

\* an update_class has raised the student count of a class to the capacity of
\* its room while the store has a smaller room, and the same update sent with
\* the smaller room named is rejected
C13_Witness ==
    /\ last.op = "update_class"
    /\ LET cls == ClassOf(classes, last.cls)
       IN  /\ cls.student_count = RoomOf(rooms, cls.room_id).capacity
           /\ \E j \in DOMAIN rooms :
                 /\ rooms[j].capacity < cls.student_count
                 /\ update_class_reply(rooms, classes, cls.id,
                        [schedule |-> NoSchedule, student_count |-> NoCount,
                         room_id |-> rooms[j].id]).status = "conflict"

\* C14: blocked is sticky: a room stored blocked is still stored blocked after
\* every create_class, update_class, reserve_room and release_class_day; only
\* an update_room on that room stores another status for it.
C14_BlockedSticky ==
    [][\A i \in DOMAIN rooms :
          (rooms[i].status = "blocked" /\ rooms'[i].status # "blocked")
              => (last'.op = "update_room" /\ last'.room = rooms[i].id)]_vars

\* the answers of the eligibility check in the snapshot (rs, cs): for every
\* candidate schedule and student count, the rooms _eligible_rooms returns
Eligibility(rs, cs) ==
    [c \in ClassSchedule \X StudentCounts |-> _eligible_rooms(rs, c[1], c[2], cs)]

\* what release_class_day replies r to (class_id, payload) in the snapshot
\* (rs, cs): on a stored class one more release record on that class and
\* nothing else changed, on an unknown class NotFound
ReleaseEffect(rs, cs, class_id, payload, r) ==
    IF class_id \in ClassIds(cs)
    THEN /\ r.status = "ok"
         /\ r.rooms = rs
         /\ DOMAIN r.classes = DOMAIN cs
         /\ \A i \in DOMAIN cs :
               /\ r.classes[i].id = cs[i].id
               /\ r.classes[i].room_id = cs[i].room_id
               /\ r.classes[i].schedule = cs[i].schedule
               /\ r.classes[i].student_count = cs[i].student_count
               /\ r.classes[i].released_slots =
                     IF cs[i].id = class_id
                     THEN Append(cs[i].released_slots, payload)
                     ELSE cs[i].released_slots
         /\ Eligibility(r.rooms, r.classes) = Eligibility(rs, cs)
    ELSE r.status = "not_found" /\ r.classes = cs

\* C15 as claimed: release_class_day on a stored class appends exactly one
\* release record to that class and leaves everything else unchanged: every
\* class's room, schedule and student count, every room's status and the answer
\* of every eligibility check; on an unknown class id it fails with NotFound and
\* the stored rooms and classes are what they were before the call.
C15_ReleaseOnlyAppends ==
    \A class_id \in ClassIdInputs, payload \in ReleaseRequest :
        LET ld == load_data(rooms, idgen)
            r == release_class_day_reply(ld.rooms, classes, class_id, payload)
        IN  /\ ReleaseEffect(rooms, classes, class_id, payload, r)
            /\ class_id \notin ClassIds(classes) => r.rooms = rooms

\* C15 as amended: the same, but on an unknown class id the stored rooms are
\* left as load_data returned them: the stored room list, or the seeded catalog
\* when that list was empty.
C15_ReleaseOnlyAppendsAfterLoad ==
    \A class_id \in ClassIdInputs, payload \in ReleaseRequest :
        LET ld == load_data(rooms, idgen)
            r == release_class_day_reply(ld.rooms, classes, class_id, payload)
        IN  /\ ReleaseEffect(ld.rooms, classes, class_id, payload, r)
            /\ class_id \in ClassIds(classes) => ld.rooms = rooms
            /\ class_id \notin ClassIds(classes) => r.rooms = ld.rooms

\* a class has released a date inside its schedule, and its room is still not
\* eligible for a candidate on that date although it is large enough, not
\* blocked and without a blocked date in the candidate's range
C15_Witness ==
    /\ last.op = "release_class_day"
    /\ LET cls == ClassOf(classes, last.cls)
           room == RoomOf(rooms, cls.room_id)
       IN  /\ Len(cls.released_slots) = 1
           /\ cls.schedule.start_date <= cls.released_slots[1].date
           /\ cls.released_slots[1].date <= cls.schedule.end_date
           /\ \E students \in StudentCounts :
                 LET day == [cls.schedule EXCEPT !.start_date = cls.released_slots[1].date,
                                                 !.end_date = cls.released_slots[1].date]
                 IN  /\ room.capacity >= students
                     /\ room.status # "blocked"
                     /\ ~_room_blocked(room, day)
                     /\ room \notin Range(_eligible_rooms(rooms, day, students, classes))

\* the request handled by the step is a successful reserve_room with desired
\* room room_id (last' is the reply of the request the step saved)
ReservedNow(room_id) ==
    /\ last'.op = "reserve_room"
    /\ last'.room = room_id
    /\ \E payload \in ReservationRequest :
          /\ payload.desired_room_id = room_id
          /\ LET r == reserve_room_reply(rooms, classes, payload)
             IN  r.status = "ok" /\ rooms' = r.rooms /\ classes' = r.classes

\* the request handled by the step ends a reservation of room room_id: a
\* successful update_class, update_room on that room, reserve_room with another
\* desired room, or create_class that assigned the new class to that room
ClearsReserved(room_id) ==
    /\ <<rooms, classes>>' # <<rooms, classes>>
    /\ \/ last'.op = "update_class"
       \/ last'.op = "update_room" /\ last'.room = room_id
       \/ last'.op = "reserve_room" /\ last'.room # room_id
       \/ /\ last'.op = "create_class"
          /\ Len(classes') = Len(classes) + 1
          /\ classes'[Len(classes')].room_id = room_id

\* C16: a room is stored reserved only if it was the desired room of a
\* successful reserve_room and no successful update_class, update_room on that
\* room, reserve_room with another desired room or create_class assigning a
\* class to it was handled since: every step that leaves a room reserved is
\* that reserve_room, or found it reserved and is none of those requests; and
\* an update_room that carries status reserved never stores reserved.
C16_ReservedOnlyByReservation ==
    [][/\ \A i \in DOMAIN rooms' :
             rooms'[i].status = "reserved" =>
                 \/ ReservedNow(rooms'[i].id)
                 \/ /\ i \in DOMAIN rooms
                    /\ rooms[i].status = "reserved"
                    /\ ~ClearsReserved(rooms[i].id)
       /\ \A room_id \in RoomIds(rooms), payload \in RoomUpdate :
             ("status" \in payload.fields /\ payload.status = "reserved") =>
                 LET r == update_room_reply(rooms, classes, room_id, payload)
                 IN  r.status = "ok" /\ RoomOf(r.rooms, room_id).status # "reserved"]_vars

\* a room reserved earlier is still stored reserved after a create_class put a
\* class in another room
C16_Witness ==
    /\ last.op = "create_class"
    /\ \E i, j \in DOMAIN rooms :
          /\ rooms[i].status = "reserved"
          /\ ClassOf(classes, last.cls).room_id = rooms[j].id
          /\ i # j

\* the rooms with sufficient capacity for students whose status is not blocked
Matching(students) ==
    { j \in DOMAIN rooms : rooms[j].capacity >= students /\ rooms[j].status # "blocked" }

\* no blocked date of room lies in [start, end] of schedule
FreeOfBlockedDates(room, schedule) ==
    \A d \in room.blocked_dates : d < schedule.start_date \/ d > schedule.end_date

\* C17 as claimed: whenever no room is eligible for a candidate and at least
\* one room has sufficient capacity and a status other than blocked,
\* _suggest_next_gap returns a date, not none.
C17_FailedSelectionHasSuggestion ==
    \A schedule \in ClassSchedule, students \in StudentCounts :
        ( /\ _eligible_rooms(rooms, schedule, students, classes) = <<>>
          /\ Matching(students) # {} )
            => _suggest_next_gap(rooms, schedule, students, classes) # NoDate

\* C17 as amended: whenever no room is eligible for a candidate and at least
\* one room with sufficient capacity and a status other than blocked has no
\* blocked date in the candidate's range, _suggest_next_gap returns a date;
\* it returns none, after a failed selection too, when no room with sufficient
\* capacity and a status other than blocked holds a conflicting class, which is
\* the case when blocked dates alone rule those rooms out.
C17_SuggestionUnlessBlockedDates ==
    \A schedule \in ClassSchedule, students \in StudentCounts :
        LET failed == _eligible_rooms(rooms, schedule, students, classes) = <<>>
            suggestion == _suggest_next_gap(rooms, schedule, students, classes)
        IN  /\ ( /\ failed
                 /\ \E j \in Matching(students) : FreeOfBlockedDates(rooms[j], schedule) )
                   => suggestion # NoDate
            /\ ( /\ failed
                 /\ \A j \in Matching(students) : Conflicting(rooms[j], schedule) = {} )
                   => /\ suggestion = NoDate
                      /\ \A j \in Matching(students) : ~FreeOfBlockedDates(rooms[j], schedule)

\* selection fails for a candidate that gets a suggestion while one room large
\* enough and not blocked holds a conflicting class and another has a blocked
\* date in the candidate's range, and fails for a candidate that gets none
\* although a room is large enough and not blocked
C17_Witness ==
    /\ \E schedule \in ClassSchedule, students \in StudentCounts :
          /\ _eligible_rooms(rooms, schedule, students, classes) = <<>>
          /\ \E j, k \in Matching(students) :
                /\ FreeOfBlockedDates(rooms[j], schedule)
                /\ ~FreeOfBlockedDates(rooms[k], schedule)
          /\ _suggest_next_gap(rooms, schedule, students, classes) # NoDate
    /\ \E schedule \in ClassSchedule, students \in StudentCounts :
          /\ _eligible_rooms(rooms, schedule, students, classes) = <<>>
          /\ Matching(students) # {}
          /\ _suggest_next_gap(rooms, schedule, students, classes) = NoDate

\* the classes assigned to the room with identifier room_id
Assigned(room_id) == { i \in DOMAIN classes : classes[i].room_id = room_id }

\* C18: in every state reachable by create_room, update_room, create_class,
\* update_class, reserve_room and release_class_day the stored status of a room
\* agrees with its occupancy: a room stored available has no class assigned to
\* it, a room stored occupied or reserved has at least one.
C18_StatusMatchesOccupancy ==
    \A i \in DOMAIN rooms :
        /\ rooms[i].status = "available" => Assigned(rooms[i].id) = {}
        /\ rooms[i].status \in {"occupied", "reserved"} => Assigned(rooms[i].id) # {}

\* after a reservation, with every class the bound allows stored, the desired
\* room is stored reserved and holds a class and another room is stored
\* available and holds none
C18_Witness ==
    /\ last.op = "reserve_room"
    /\ \E i, j \in DOMAIN rooms :
          /\ rooms[i].status = "reserved" /\ Assigned(rooms[i].id) # {}
          /\ rooms[j].status = "available" /\ Assigned(rooms[j].id) = {}
    /\ Len(classes) = MaxClasses

\* C19: in every reachable state the room id of every stored class is the id
\* of exactly one stored room; no step removes a room or a class: every stored
\* room and class keeps its place and its identifier, and the numbers of stored
\* rooms and classes never decrease.
C19_ClassesReferToStoredRooms ==
    [][/\ \A i \in DOMAIN classes' :
             Cardinality({ j \in DOMAIN rooms' : rooms'[j].id = classes'[i].room_id }) = 1
       /\ Len(rooms') >= Len(rooms)
       /\ Len(classes') >= Len(classes)
       /\ \A j \in DOMAIN rooms : rooms'[j].id = rooms[j].id
       /\ \A i \in DOMAIN classes : classes'[i].id = classes[i].id]_vars

\* an update_class has stored a class in the room it named while another class
\* is stored in another room, and the store holds every room and class the
\* bounds allow
C19_Witness ==
    /\ last.op = "update_class"
    /\ Len(rooms) = MaxRooms
    /\ Len(classes) = MaxClasses
    /\ ClassOf(classes, last.cls).room_id = last.room
    /\ \E i \in DOMAIN classes : classes[i].room_id # last.room

====
